---- MODULE Spec2Model ----
(***************************************************************************)
(* State-machine model of the execution runtime of the repository         *)
(* (src/execution/runtime.py) together with the callers of                 *)
(* Runtime.execute_code (src/execution/tools.py, src/execution/agent.py). *)
(*                                                                         *)
(* Spec starts in the state a successful Runtime() construction leaves    *)
(* behind: a kernel manager, a kernel client with running channels, a     *)
(* live kernel process and an empty history.  SpecBuild is the            *)
(* construction itself (provisioning, kernel start), SpecAgent the agent  *)
(* loop with its tools.                                                    *)
(*                                                                         *)
(* Texts that travel through the kernel protocol are opaque to the         *)
(* runtime.  A text produced by the kernel is written <<p, k>>: the text   *)
(* of the k-th message the kernel published, published on behalf of the    *)
(* request with id p.  Request id 0 stands for every request that was not  *)
(* made by execute_code (the ready handshake, another client).             *)
(***************************************************************************)
EXTENDS Integers, Sequences, FiniteSets, TLC

VARIABLES
    kernel_manager,     \* self.kernel_manager: "None" or "km"
    kernel_client,      \* self.kernel_client: "None" or "kc"
    executed_cells,     \* self.executed_cells: the history
    kernelAlive,        \* the kernel process runs (KernelManager.is_alive)
    channels_running,   \* kernel_client.channels_running
    iopub,              \* messages published by the kernel, not yet polled
    shell,              \* execute requests written to the kernel, in order
    caller,             \* position of the agent loop: "Executing" or the tool being dispatched
    pc,                 \* position of execute_code: "none" or "pump"
    msg_id,             \* execute_code local: id of the current request
    code_string,        \* execute_code argument
    outputs,            \* execute_code local: events gathered so far
    ret,                \* outcome of the last finished call of a Runtime method
    calls,              \* number of execute_code calls begun
    returns,            \* number of execute_code calls that returned
    inFlight,           \* ids of the requests whose execute_code call has not finished
    emitted,            \* number of messages the kernel published
    lastPoll,           \* what the last get_iopub_msg of the current call gave
    killedMid,          \* id of the request that was being served when the kernel was killed, or 0
    shutdowns,          \* number of shutdown_kernel calls
    stopCalls,          \* number of kernel_client.stop_channels calls
    termCalls,          \* number of kernel_manager.shutdown_kernel calls
    buildPc,            \* position of Runtime.__init__: "setup", "start", "register", "done", "failed"
    buildErr,           \* the step at which the last construction raised, or "none"
    builds,             \* number of Runtime constructions begun on the environment path
    marker,             \* the file pyvenv.cfg exists in the environment path
    pkgs,               \* the pip install of jupyter_client and ipykernel has succeeded
    kspec,              \* the kernel specification is registered
    creates,            \* number of environments venv.create made
    installs,           \* number of pip install runs
    launch,             \* how the kernel manager was made: "spec", "direct" or "none"
    atexit,             \* shutdown_kernel of this Runtime is registered at exit
    termFailed,         \* the last kernel termination request raised
    orphans,            \* kernels left running by abandoned constructions
    exited,             \* the process has exited and its exit hooks have run
    execution_messages, \* Agent.execution_messages: the transcript
    function_call,      \* the function call being dispatched by _execute_plan
    turns,              \* number of model calls of _execute_plan
    invoked,            \* the tool.execute calls made, in order, with their outcome
    response            \* _execute_plan local: what llm.responses.create gave

buildVars == << buildPc, buildErr, builds, marker, pkgs, kspec, creates,
               installs, launch, atexit, termFailed, orphans, exited >>
agentVars == << execution_messages, function_call, turns, invoked, response >>
extVars == << buildVars, agentVars >>

vars == << kernel_manager, kernel_client, executed_cells, kernelAlive,
           channels_running, iopub, shell, caller, pc, msg_id, code_string,
           outputs, ret, calls, returns, inFlight, emitted, lastPoll,
           killedMid, shutdowns, stopCalls, termCalls, buildVars, agentVars >>

kernelVars == << kernelAlive, channels_running, iopub, emitted, killedMid >>
callVars == << caller, pc, msg_id, code_string, outputs, calls, returns,
              inFlight, shell, lastPoll >>
shutVars == << shutdowns, stopCalls, termCalls >>

---------------------------------------------------------------------------
(* Bounds of the model. *)
MaxCalls == 2       \* execute_code calls
MaxEmit == 3        \* messages the kernel publishes
MaxQueue == 2       \* messages waiting in the iopub channel
MaxShutdowns == 2   \* shutdown_kernel calls

(* Code strings submitted by the tools. *)
ImportCode == "import_code"
Codes == {"print(1)", ImportCode}

(* Persisted integrations: app_id of the class each module exposes. *)
Apps == {"example.svc"}
AppNames == Apps \cup {"missing.svc"}

(* Message types of the iopub channel, with the execution_state of a status. *)
MsgKinds ==
    { <<"status", "idle">>, <<"status", "busy">>, <<"stream", "">>,
      <<"display_data", "">>, <<"execute_result", "">>, <<"error", "">>,
      <<"execute_input", "">> }

(* The iopub message of kind kd the kernel publishes as its k-th message on
   behalf of request p. *)
Msg(p, kd, k) ==
    [ parent |-> p, msg_type |-> kd[1], execution_state |-> kd[2],
      text |-> <<p, k>> ]


(* parent_header.msg_id of a message is the id of the current request
   (runtime.py line 218: every other message is skipped). *)
RelevantAny(io_msg, id) == TRUE
Relevant(io_msg, id) == io_msg.parent = id

(* The status message that ends the pump (runtime.py lines 225-227). *)
EndsPump(io_msg) ==
    io_msg.msg_type = "status" /\ io_msg.execution_state = "idle"

(* The event a message of the current request is classified into
   (runtime.py lines 228-257); status and every other type yield none. *)
ClassifyAsStream(io_msg) ==
    IF io_msg.msg_type \in {"stream", "display_data", "execute_result", "error"}
    THEN << [type |-> "stream", name |-> "stdout", text |-> io_msg.text] >>
    ELSE << >>
Classify(io_msg) ==
    CASE io_msg.msg_type = "stream" ->
            << [type |-> "stream", name |-> "stdout", text |-> io_msg.text] >>
      [] io_msg.msg_type = "display_data" ->
            << [type |-> "display_data", data |-> io_msg.text, metadata |-> "{}"] >>
      [] io_msg.msg_type = "execute_result" ->
            << [type |-> "execute_result", data |-> io_msg.text, metadata |-> "{}"] >>
      [] io_msg.msg_type = "error" ->
            << [type |-> "error", ename |-> "ZeroDivisionError",
                evalue |-> io_msg.text, traceback |-> io_msg.text] >>
      [] OTHER -> << >>

(* outputs.append(...) of the classified event. *)
GatherFront(outs, io_msg) == Classify(io_msg) \o outs
Gather(outs, io_msg) == outs \o Classify(io_msg)

(* The synthetic event of runtime.py lines 206-213; its evalue is the fixed
   text "Kernel died", written <<0, 0>>, and its traceback the empty list. *)
KernelDiedEvent ==
    [type |-> "error", ename |-> "KernelDiedError", evalue |-> <<0, 0>>,
     traceback |-> << >>]

IsKernelDied(e) == e.type = "error" /\ e.ename = "KernelDiedError"

(* What the pump leaves in outputs when a poll fails and the kernel is dead. *)
DiedOutputsSilent(outs) == outs
DiedOutputs(outs) == Append(outs, KernelDiedEvent)

(* A failed poll ends the pump only when the kernel is not alive
   (runtime.py line 204). *)
DiedOnTimeoutAlways == TRUE
DiedOnTimeout == ~kernelAlive

(* The guard of execute_code (runtime.py line 183): a client exists and the
   kernel process is alive. *)
AvailableAlways == TRUE
AvailableClientOnly == kernel_client # "None"
Available == kernel_client # "None" /\ kernelAlive

(* self.executed_cells.append({"code": ..., "outputs": ...}) (line 260). *)
RecordedUnlessEmpty(cells, code, outs) ==
    IF outs = << >> THEN cells ELSE Append(cells, [code |-> code, outputs |-> outs])
RecordedLastOnly(cells, code, outs) == << [code |-> code, outputs |-> outs] >>
RecordedUnlessDied(cells, code, outs) ==
    IF outs # << >> /\ IsKernelDied(outs[Len(outs)])
    THEN cells
    ELSE Append(cells, [code |-> code, outputs |-> outs])
Recorded(cells, code, outs) == Append(cells, [code |-> code, outputs |-> outs])

(* The agent loop calls a tool synchronously (agent.py line 146): the next
   operation starts only when no tool call is running. *)
CallerReadyAsync == TRUE
CallerReady == caller = "Executing"

(* stop_channels and the manager's shutdown_kernel run inside try/except
   Exception (runtime.py lines 273-276 and 281-286): a failure is printed,
   not raised. *)
StopUnguarded == FALSE
StopGuarded == TRUE
TermGuarded == TRUE

(* self.kernel_client = None, self.kernel_manager = None (lines 277, 287). *)
ClientKept == kernel_client
ClientReleased == "None"
ManagerKept == kernel_manager
ManagerReleased == "None"

(* Outcomes of a poll that delivered no message. *)
NoPoll == [parent |-> 0, msg_type |-> "none", execution_state |-> ""]
TimedOut == [parent |-> 0, msg_type |-> "timeout", execution_state |-> ""]
Polled(io_msg) ==
    [parent |-> io_msg.parent, msg_type |-> io_msg.msg_type,
     execution_state |-> io_msg.execution_state]

(* No function call is being dispatched. *)
NoCall == [name |-> "", arguments |-> "", call_id |-> 0]

(* No response of the model is waiting to be handled. *)
NoResponse ==
    [status |-> "none", output_text |-> "", first |-> "none", name |-> "",
     arguments |-> "", call_id |-> 0, rest |-> << >>]

NoRet == [op |-> "none", kind |-> "none", id |-> 0, value |-> << >>]

---------------------------------------------------------------------------
Init ==
    /\ kernel_manager = "km"
    /\ kernel_client = "kc"
    /\ executed_cells = << >>
    /\ kernelAlive = TRUE
    /\ channels_running = TRUE
    /\ iopub = << >>
    /\ shell = << >>
    /\ caller = "Executing"
    /\ pc = "none"
    /\ msg_id = 0
    /\ code_string = ""
    /\ outputs = << >>
    /\ ret = NoRet
    /\ calls = 0
    /\ returns = 0
    /\ inFlight = {}
    /\ emitted = 0
    /\ lastPoll = NoPoll
    /\ killedMid = 0
    /\ shutdowns = 0
    /\ stopCalls = 0
    /\ termCalls = 0
    /\ buildPc = "done"
    /\ buildErr = "none"
    /\ builds = 1
    /\ marker = TRUE
    /\ pkgs = TRUE
    /\ kspec = TRUE
    /\ creates = 1
    /\ installs = 1
    /\ launch = "spec"
    /\ atexit = TRUE
    /\ termFailed = FALSE
    /\ orphans = 0
    /\ exited = FALSE
    /\ execution_messages = << >>
    /\ function_call = NoCall
    /\ turns = 0
    /\ invoked = << >>
    /\ response = NoResponse

(* Runtime.execute_code up to the first poll (runtime.py lines 183-194),
   called by the tool `tool` with `code`. *)
execute_code_begin(tool, code) ==
    /\ CallerReady
    /\ calls < MaxCalls
    /\ calls' = calls + 1
    /\ IF Available
       THEN /\ msg_id' = Len(shell) + 1
            /\ shell' = Append(shell, [msg_id |-> Len(shell) + 1, code |-> code])
            /\ inFlight' = inFlight \cup {Len(shell) + 1}
            /\ code_string' = code
            /\ outputs' = << >>
            /\ pc' = "pump"
            /\ caller' = tool
            /\ lastPoll' = NoPoll
            /\ UNCHANGED ret
       ELSE /\ ret' = [op |-> "execute_code", kind |-> "raised", id |-> 0,
                       value |-> << >>]
            /\ UNCHANGED << msg_id, shell, inFlight, code_string, outputs, pc,
                            caller, lastPoll >>
    /\ UNCHANGED << kernel_manager, kernel_client, executed_cells, returns >>
    /\ UNCHANGED kernelVars
    /\ UNCHANGED shutVars
    /\ UNCHANGED extVars

(* The end of execute_code (runtime.py lines 260-262) with outputs outs. *)
Finish(outs) ==
    /\ executed_cells' = Recorded(executed_cells, code_string, outs)
    /\ ret' = [op |-> "execute_code", kind |-> "returned", id |-> msg_id,
               value |-> outs]
    /\ returns' = returns + 1
    /\ inFlight' = inFlight \ {msg_id}
    /\ pc' = "none"
    /\ caller' = "Executing"
    /\ msg_id' = 0
    /\ code_string' = ""
    /\ outputs' = << >>

(* One turn of the pump in which get_iopub_msg delivers a message
   (runtime.py lines 202, 218-258). *)
PumpMessage ==
    /\ pc = "pump"
    /\ iopub # << >>
    /\ iopub' = Tail(iopub)
    /\ lastPoll' = Polled(Head(iopub))
    /\ LET io_msg == Head(iopub) IN
         IF ~Relevant(io_msg, msg_id)
         THEN UNCHANGED << executed_cells, ret, returns, inFlight, pc, caller,
                           msg_id, code_string, outputs >>
         ELSE IF io_msg.msg_type = "status"
         THEN IF EndsPump(io_msg)
              THEN Finish(outputs)
              ELSE UNCHANGED << executed_cells, ret, returns, inFlight, pc,
                                caller, msg_id, code_string, outputs >>
         ELSE /\ outputs' = Gather(outputs, io_msg)
              /\ UNCHANGED << executed_cells, ret, returns, inFlight, pc,
                              caller, msg_id, code_string >>
    /\ UNCHANGED << kernel_manager, kernel_client, kernelAlive, channels_running,
                    emitted, killedMid, shell, calls >>
    /\ UNCHANGED shutVars
    /\ UNCHANGED extVars

(* One turn of the pump in which get_iopub_msg times out
   (runtime.py lines 203-216). *)
PumpTimeout ==
    /\ pc = "pump"
    /\ iopub = << >>
    /\ lastPoll' = TimedOut
    /\ IF DiedOnTimeout
       THEN Finish(DiedOutputs(outputs))
       ELSE UNCHANGED << executed_cells, ret, returns, inFlight, pc, caller,
                         msg_id, code_string, outputs >>
    /\ UNCHANGED << kernel_manager, kernel_client, shell, calls >>
    /\ UNCHANGED kernelVars
    /\ UNCHANGED shutVars
    /\ UNCHANGED extVars

(* ExecuteCodeTool.execute (tools.py lines 138-140) starts. *)
ExecuteCodeTool_execute ==
    \E code \in Codes \ {ImportCode} : execute_code_begin("execute_code", code)

(* ImportAppTool.execute (tools.py lines 170-208): a matching class submits
   the import code; no matching class returns the error text at once. *)
ImportAppTool_execute ==
    \E app_name \in AppNames :
        IF app_name \in Apps
        THEN execute_code_begin("import_app", ImportCode)
        ELSE /\ CallerReady
             /\ ret' = [op |-> "import_app", kind |-> "returned", id |-> 0,
                        value |-> << >>]
             /\ UNCHANGED << kernel_manager, kernel_client, executed_cells >>
             /\ UNCHANGED kernelVars
             /\ UNCHANGED callVars
             /\ UNCHANGED shutVars
             /\ UNCHANGED extVars

(* Runtime.get_executed_cells (runtime.py lines 264-266). *)
get_executed_cells ==
    /\ CallerReady
    /\ ret' = [op |-> "get_executed_cells", kind |-> "returned", id |-> 0,
               value |-> executed_cells]
    /\ UNCHANGED << kernel_manager, kernel_client, executed_cells >>
    /\ UNCHANGED kernelVars
    /\ UNCHANGED callVars
    /\ UNCHANGED shutVars
    /\ UNCHANGED extVars


(* Runtime.shutdown_kernel (runtime.py lines 268-288), called explicitly or
   by the exit hook.  stopFails and termFails say whether stop_channels and
   the manager's shutdown_kernel raise when they are called; a call that
   raises leaves its resource as it was. *)
shutdown_kernel ==
    \E stopFails \in BOOLEAN, termFails \in BOOLEAN :
      LET stopTried == kernel_client # "None" /\ channels_running
          stopEscapes == stopTried /\ stopFails /\ ~StopGuarded
          termTried == ~stopEscapes /\ kernel_manager # "None" /\ kernelAlive
          termEscapes == termTried /\ termFails /\ ~TermGuarded
      IN
      /\ CallerReady
      /\ shutdowns < MaxShutdowns
      /\ shutdowns' = shutdowns + 1
      /\ stopCalls' = IF stopTried THEN stopCalls + 1 ELSE stopCalls
      /\ channels_running' =
            IF stopTried /\ ~stopFails THEN FALSE ELSE channels_running
      /\ kernel_client' =
            IF kernel_client # "None" /\ ~stopEscapes
            THEN ClientReleased ELSE kernel_client
      /\ termCalls' = IF termTried THEN termCalls + 1 ELSE termCalls
      /\ kernelAlive' = IF termTried /\ ~termFails THEN FALSE ELSE kernelAlive
      /\ kernel_manager' =
            IF kernel_manager # "None" /\ ~stopEscapes /\ ~termEscapes
            THEN ManagerReleased ELSE kernel_manager
      /\ ret' = [op |-> "shutdown_kernel",
                 kind |-> IF stopEscapes \/ termEscapes THEN "raised" ELSE "returned",
                 id |-> 0, value |-> << >>]
      /\ UNCHANGED << executed_cells, iopub, emitted, killedMid >>
      /\ UNCHANGED callVars
      /\ UNCHANGED extVars

---------------------------------------------------------------------------
(* The kernel process, seen from the runtime. *)

(* The kernel publishes a message of any type on the iopub channel, on
   behalf of any request written so far or of a request of another origin. *)
KernelEmit ==
    \E p \in 0..Len(shell), kd \in MsgKinds :
      /\ kernelAlive
      /\ channels_running
      /\ emitted < MaxEmit
      /\ Len(iopub) < MaxQueue
      /\ emitted' = emitted + 1
      /\ iopub' = Append(iopub, Msg(p, kd, emitted + 1))
      /\ UNCHANGED << kernel_manager, kernel_client, executed_cells, kernelAlive,
                      channels_running, killedMid, ret >>
      /\ UNCHANGED callVars
      /\ UNCHANGED shutVars
      /\ UNCHANGED extVars

(* The idle status of request id is published and not yet polled. *)
IdlePending(id) ==
    \E i \in 1..Len(iopub) : Relevant(iopub[i], id) /\ EndsPump(iopub[i])

(* The kernel process is killed from outside.  killedMid remembers the
   request that was being pumped and had not reported idle. *)
KernelDie ==
    /\ kernelAlive
    /\ kernelAlive' = FALSE
    /\ killedMid' = IF pc = "pump" /\ ~IdlePending(msg_id) THEN msg_id ELSE killedMid
    /\ UNCHANGED << kernel_manager, kernel_client, executed_cells,
                    channels_running, iopub, emitted, ret >>
    /\ UNCHANGED callVars
    /\ UNCHANGED shutVars
    /\ UNCHANGED extVars

---------------------------------------------------------------------------
Next ==
    \/ ExecuteCodeTool_execute
    \/ ImportAppTool_execute
    \/ PumpMessage
    \/ PumpTimeout
    \/ get_executed_cells
    \/ shutdown_kernel
    \/ KernelEmit
    \/ KernelDie

Spec == Init /\ [][Next]_vars

(* The tools that submit code, the pump and the kernel alone; the pump is a
   running loop: every poll delivers a message or times out. *)
NextPump ==
    \/ ExecuteCodeTool_execute
    \/ ImportAppTool_execute
    \/ PumpMessage
    \/ PumpTimeout
    \/ KernelEmit
    \/ KernelDie

FairSpec ==
    Init /\ [][NextPump]_vars /\ WF_vars(PumpMessage) /\ WF_vars(PumpTimeout)


---------------------------------------------------------------------------
(* Reading events. *)

(* The text an event carries. *)
EventText(e) ==
    CASE e.type = "stream" -> e.text
      [] e.type = "error" -> e.evalue
      [] OTHER -> e.data

(* The request on whose behalf the kernel published the message an event
   was made from, and the rank of that message among all published ones. *)
Origin(e) == EventText(e)[1]
Rank(e) == EventText(e)[2]

(* Every event of outs was made from a message of request id, or is the
   synthetic event of the runtime. *)
OwnEvents(outs, id) ==
    \A i \in 1..Len(outs) : IsKernelDied(outs[i]) \/ Origin(outs[i]) = id

(* The events of outs made from kernel messages stand in publication order. *)
InEmissionOrder(outs) ==
    \A i, j \in 1..Len(outs) :
        (i < j /\ ~IsKernelDied(outs[i]) /\ ~IsKernelDied(outs[j]))
            => Rank(outs[i]) < Rank(outs[j])

Returned == ret.op = "execute_code" /\ ret.kind = "returned"
Raised == ret.op = "execute_code" /\ ret.kind = "raised"

---------------------------------------------------------------------------
(* C1: no message whose parent msg_id differs from the current request id
   contributes an event: the events gathered by the pump, the events a call
   returned and the events of the i-th history record all stem from messages
   of that very request (or are the runtime's own KernelDied event). *)
C1_NoCrossTalk ==
    /\ pc = "pump" => OwnEvents(outputs, msg_id)
    /\ Returned => OwnEvents(ret.value, ret.id)
    /\ \A i \in 1..Len(executed_cells) : OwnEvents(executed_cells[i].outputs, i)

(* The pump of request 2 has just skipped an output message of request 1
   that arrived late, after it had gathered an event of its own. *)
C1_Witness ==
    /\ pc = "pump" /\ msg_id = 2
    /\ outputs # << >>
    /\ lastPoll.parent = 1
    /\ lastPoll.msg_type \in {"stream", "display_data", "execute_result", "error"}

(* C2: the pump is left only by a poll that delivers the idle status of the
   current request, or by a failed poll while the kernel is not alive; a
   timeout with a live kernel and the idle status of another request leave
   execute_code pumping. *)
C2_PumpExits ==
    [][ (pc = "pump" /\ (pc' # "pump" \/ returns' # returns))
          => /\ returns' = returns + 1
             /\ ret'.op = "execute_code" /\ ret'.kind = "returned"
             /\ \/ /\ iopub # << >>
                   /\ Head(iopub).parent = msg_id
                   /\ Head(iopub).msg_type = "status"
                   /\ Head(iopub).execution_state = "idle"
                \/ /\ iopub = << >>
                   /\ ~kernelAlive ]_vars

(* Request 2 is still being pumped, with the kernel alive, right after the
   poll delivered the idle status of request 1. *)
C2_Witness ==
    /\ pc = "pump" /\ msg_id = 2 /\ kernelAlive
    /\ lastPoll.parent = 1
    /\ lastPoll.msg_type = "status" /\ lastPoll.execution_state = "idle"

(* A call of execute_code ended for the request that was being served when
   the kernel was killed. *)
EndedByDeath == Returned /\ killedMid # 0 /\ ret.id = killedMid

(* C3 (as stated): when the kernel is killed during a submission,
   execute_code returns exactly one event, the synthetic KernelDied error. *)
C3_Original ==
    EndedByDeath => (Len(ret.value) = 1 /\ IsKernelDied(ret.value[1]))

(* C3 (amended): when the kernel is killed during a submission, execute_code
   eventually returns, and it returns the events of that request gathered
   before the death followed by exactly one synthetic KernelDied error, which
   is the last event; no pump keeps running forever on a dead kernel. *)
C3_KernelDeath ==
    /\ [](EndedByDeath =>
            /\ Len(ret.value) >= 1
            /\ IsKernelDied(ret.value[Len(ret.value)])
            /\ \A i \in 1..(Len(ret.value) - 1) :
                  ~IsKernelDied(ret.value[i]) /\ Origin(ret.value[i]) = ret.id)
    /\ (pc = "pump" /\ killedMid # 0 /\ msg_id = killedMid) ~> EndedByDeath
    /\ (pc = "pump" /\ ~kernelAlive) ~> (pc = "none")

(* The kernel was killed after the request had printed: the call returned the
   stream event and then the KernelDied event. *)
C3_Witness ==
    /\ EndedByDeath
    /\ Len(ret.value) = 2
    /\ ret.value[1].type = "stream"
    /\ IsKernelDied(ret.value[2])

(* C4: the events gathered, returned and recorded for a request stand in the
   order in which the kernel published their messages, and the synthetic
   KernelDied event comes after all of them. *)
C4_EmissionOrder ==
    /\ InEmissionOrder(outputs)
    /\ Returned =>
          /\ InEmissionOrder(ret.value)
          /\ \A i \in 1..(Len(ret.value) - 1) : ~IsKernelDied(ret.value[i])
    /\ \A i \in 1..Len(executed_cells) : InEmissionOrder(executed_cells[i].outputs)

(* Code that prints and then raises: the call returned the stream event
   followed by the error event. *)
C4_Witness ==
    /\ Returned
    /\ Len(ret.value) = 2
    /\ ret.value[1].type = "stream"
    /\ ret.value[2].type = "error" /\ ~IsKernelDied(ret.value[2])

(* C5: at most one request is in flight: a request is written to the kernel
   only when no earlier execute_code call is unfinished. *)
C5_OneInFlight ==
    /\ Cardinality(inFlight) <= 1
    /\ inFlight = (IF pc = "pump" THEN {msg_id} ELSE {})

(* import_app has request 2 in flight after the execute_code tool's request 1
   has returned. *)
C5_Witness ==
    /\ inFlight = {2}
    /\ caller = "import_app"
    /\ returns = 1
    /\ executed_cells[1].code # ImportCode

(* C6: execute_code called without a live session (no client, or a kernel
   that is not alive) raises, writes no request to the kernel, leaves the
   manager, the client and the kernel process as they are, and leaves the
   history unchanged. *)
C6_Unavailable ==
    [][ (calls' = calls + 1 /\ (kernel_client = "None" \/ ~kernelAlive))
          => /\ ret'.op = "execute_code" /\ ret'.kind = "raised"
             /\ shell' = shell
             /\ pc' = pc
             /\ inFlight' = inFlight
             /\ executed_cells' = executed_cells
             /\ kernel_manager' = kernel_manager
             /\ kernel_client' = kernel_client
             /\ kernelAlive' = kernelAlive ]_vars

(* After one recorded execution and a shutdown, a second execute_code raised
   with the single earlier request and the single earlier record in place. *)
C6_Witness ==
    /\ Raised
    /\ calls = 2
    /\ kernel_client = "None"
    /\ shutdowns >= 1
    /\ Len(shell) = 1
    /\ Len(executed_cells) = 1

(* C7: the history holds one record per execute_code call that returned, in
   submission order, each with the submitted code; the record of the call
   that just returned holds exactly the returned events; get_executed_cells
   returns that history. *)
C7_HistoryRecords ==
    /\ Len(executed_cells) = returns
    /\ \A i \in 1..Len(executed_cells) :
          i <= Len(shell) /\ executed_cells[i].code = shell[i].code
    /\ Returned =>
          /\ ret.id = Len(executed_cells)
          /\ executed_cells[ret.id].outputs = ret.value
    /\ ret.op = "get_executed_cells" =>
          /\ ret.value = executed_cells
          /\ Len(ret.value) = returns

(* get_executed_cells listed two returned executions, the first with an
   event and the second with none. *)
C7_Witness ==
    /\ ret.op = "get_executed_cells"
    /\ returns = 2
    /\ Len(ret.value) = 2
    /\ ret.value[1].outputs # << >>
    /\ ret.value[2].outputs = << >>

(* C8: the history is append-only: every step of every Runtime operation
   keeps each earlier record at its position with its code and outputs. *)
C8_AppendOnly ==
    [][ /\ Len(executed_cells) <= Len(executed_cells')
        /\ \A i \in 1..Len(executed_cells) :
              /\ i <= Len(executed_cells')
              /\ executed_cells'[i].code = executed_cells[i].code
              /\ executed_cells'[i].outputs = executed_cells[i].outputs ]_vars

(* Two executions are recorded, the first with an event, and the kernel was
   then shut down: both records are still in place. *)
C8_Witness ==
    /\ Len(executed_cells) = 2
    /\ executed_cells[1].outputs # << >>
    /\ shutdowns >= 1
    /\ ret.op = "shutdown_kernel"

(* C9: a shutdown_kernel call after the first one stops no channel, requests
   no kernel termination and leaves the Runtime as it is. *)
C9_ShutdownIdempotent ==
    [][ (shutdowns' = shutdowns + 1 /\ shutdowns >= 1)
          => /\ stopCalls' = stopCalls
             /\ termCalls' = termCalls
             /\ kernel_manager' = kernel_manager
             /\ kernel_client' = kernel_client
             /\ executed_cells' = executed_cells
             /\ kernelAlive' = kernelAlive
             /\ channels_running' = channels_running ]_vars

(* shutdown_kernel ran twice after a first call whose stop_channels failed,
   with one stop and one termination request in all. *)
C9_Witness ==
    /\ shutdowns = 2
    /\ stopCalls = 1
    /\ termCalls = 1
    /\ channels_running

(* C10: every shutdown_kernel call returns without raising, with the client
   and the manager released, and requests the termination of a live kernel
   whether or not stopping the channels failed. *)
C10_GuardedTeardown ==
    [][ shutdowns' = shutdowns + 1
          => /\ ret'.op = "shutdown_kernel" /\ ret'.kind = "returned"
             /\ kernel_client' = "None"
             /\ kernel_manager' = "None"
             /\ (kernel_manager # "None" /\ kernelAlive)
                   => termCalls' = termCalls + 1 ]_vars

(* The first shutdown_kernel returned after both stop_channels and the
   termination request had failed: both were tried, both resources are
   released. *)
C10_Witness ==
    /\ shutdowns = 1
    /\ stopCalls = 1 /\ channels_running
    /\ termCalls = 1 /\ kernelAlive
    /\ kernel_client = "None" /\ kernel_manager = "None"
    /\ ret.op = "shutdown_kernel" /\ ret.kind = "returned"


---------------------------------------------------------------------------
(* Construction of a Runtime (runtime.py lines 26-170). *)

MaxBuilds == 2      \* Runtime constructions on the same environment path

(* The marker test of _setup_virtual_env (runtime.py lines 63-64). *)
MarkerIgnored == FALSE
MarkerExists == marker

(* The handler of a failed ready handshake calls shutdown_kernel before it
   raises (runtime.py lines 165-170). *)
NoCleanUpOnTimeout == FALSE
CleansUpOnTimeout == TRUE

(* atexit.register(self.shutdown_kernel) (runtime.py line 53). *)
HookSkipped == FALSE
HookRegistered == TRUE

(* A failed pip install raises RuntimeError (runtime.py lines 81-85). *)
InstallIgnored == FALSE
InstallFatal == TRUE

BuildRaised(step) ==
    /\ buildPc' = "failed"
    /\ buildErr' = step
    /\ ret' = [op |-> "Runtime", kind |-> "raised", id |-> 0, value |-> << >>]

(* The state in which the construction of a first Runtime on a fresh
   environment path begins. *)
InitBuild ==
    /\ kernel_manager = "None"
    /\ kernel_client = "None"
    /\ executed_cells = << >>
    /\ kernelAlive = FALSE
    /\ channels_running = FALSE
    /\ iopub = << >>
    /\ shell = << >>
    /\ caller = "Executing"
    /\ pc = "none"
    /\ msg_id = 0
    /\ code_string = ""
    /\ outputs = << >>
    /\ ret = NoRet
    /\ calls = 0
    /\ returns = 0
    /\ inFlight = {}
    /\ emitted = 0
    /\ lastPoll = NoPoll
    /\ killedMid = 0
    /\ shutdowns = 0
    /\ stopCalls = 0
    /\ termCalls = 0
    /\ buildPc = "setup"
    /\ buildErr = "none"
    /\ builds = 1
    /\ marker = FALSE
    /\ pkgs = FALSE
    /\ kspec = FALSE
    /\ creates = 0
    /\ installs = 0
    /\ launch = "none"
    /\ atexit = FALSE
    /\ termFailed = FALSE
    /\ orphans = 0
    /\ exited = FALSE
    /\ execution_messages = << >>
    /\ function_call = NoCall
    /\ turns = 0
    /\ invoked = << >>
    /\ response = NoResponse

(* Runtime.__init__ up to _setup_virtual_env (runtime.py lines 35-49), for
   another Runtime on the same path after the previous construction ended.
   A kernel the previous construction left running without a registered
   shutdown is counted in orphans. *)
Runtime_init ==
    /\ buildPc \in {"done", "failed"}
    /\ ~exited
    /\ builds < MaxBuilds
    /\ builds' = builds + 1
    /\ buildPc' = "setup"
    /\ buildErr' = "none"
    /\ kernel_manager' = "None"
    /\ kernel_client' = "None"
    /\ executed_cells' = << >>
    /\ orphans' = IF kernelAlive /\ ~atexit THEN orphans + 1 ELSE orphans
    /\ kernelAlive' = FALSE
    /\ channels_running' = FALSE
    /\ launch' = "none"
    /\ atexit' = FALSE
    /\ UNCHANGED << iopub, emitted, killedMid, ret, marker, pkgs, kspec,
                    creates, installs, termFailed, exited >>
    /\ UNCHANGED callVars
    /\ UNCHANGED shutVars
    /\ UNCHANGED agentVars

(* Runtime._setup_virtual_env (runtime.py lines 61-112).  created, installed
   and registered say whether venv.create, the pip install and the kernel
   specification install succeed when they run; a venv.create that fails may
   or may not have written pyvenv.cfg already. *)
setup_virtual_env ==
    \E created \in BOOLEAN, wrote \in BOOLEAN, installed \in BOOLEAN,
       registered \in BOOLEAN :
      /\ buildPc = "setup"
      /\ IF MarkerExists
         THEN /\ buildPc' = "start"
              /\ UNCHANGED << buildErr, ret, marker, pkgs, kspec, creates, installs >>
         ELSE IF ~created
         THEN /\ BuildRaised("create")
              /\ marker' = wrote
              /\ UNCHANGED << pkgs, kspec, creates, installs >>
         ELSE IF ~installed /\ InstallFatal
         THEN /\ BuildRaised("install")
              /\ marker' = TRUE
              /\ creates' = creates + 1
              /\ installs' = installs + 1
              /\ UNCHANGED << pkgs, kspec >>
         ELSE /\ buildPc' = "start"
              /\ marker' = TRUE
              /\ creates' = creates + 1
              /\ installs' = installs + 1
              /\ pkgs' = installed
              /\ kspec' = (kspec \/ registered)
              /\ UNCHANGED << buildErr, ret >>
      /\ UNCHANGED << kernel_manager, kernel_client, executed_cells, builds,
                      launch, atexit, termFailed, orphans, exited >>
      /\ UNCHANGED kernelVars
      /\ UNCHANGED callVars
      /\ UNCHANGED shutVars
      /\ UNCHANGED agentVars

(* Runtime._start_kernel (runtime.py lines 114-170).  lookup says where the
   library resolves the kernel specification name: in the constructor of
   KernelManager, whose NoSuchKernel lines 122-136 handle, or in
   start_kernel() at line 156, which no handler surrounds.  started, opened
   and handshake say how start_kernel, start_channels and wait_for_ready end;
   stopFails and termFails are those of the shutdown_kernel call made by
   the handler of a failed handshake. *)
start_kernel ==
    \E started \in BOOLEAN, opened \in BOOLEAN,
       handshake \in {"ready", "timeout", "error"},
       lookup \in {"constructor", "start_kernel"},
       alive \in BOOLEAN,
       stopFails \in BOOLEAN, termFails \in BOOLEAN :
      LET cleans == started /\ opened /\ handshake = "timeout" /\ CleansUpOnTimeout
      IN
      /\ buildPc = "start"
      /\ launch' = IF kspec \/ lookup = "start_kernel" THEN "spec" ELSE "direct"
      /\ IF ~kspec /\ lookup = "start_kernel"
         THEN /\ BuildRaised("no_such_kernel")
              /\ kernel_manager' = "km"
              /\ UNCHANGED << kernel_client, kernelAlive, channels_running,
                              stopCalls, termCalls, termFailed >>
         ELSE IF ~started
         THEN /\ BuildRaised("start_kernel")
              /\ kernel_manager' = "km"
              /\ UNCHANGED << kernel_client, kernelAlive, channels_running,
                              stopCalls, termCalls, termFailed >>
         ELSE IF ~opened
         THEN /\ BuildRaised("start_channels")
              /\ kernel_manager' = "km"
              /\ kernel_client' = "kc"
              /\ kernelAlive' = TRUE
              /\ UNCHANGED << channels_running, stopCalls, termCalls, termFailed >>
         ELSE IF handshake = "ready"
         THEN /\ buildPc' = "register"
              /\ kernel_manager' = "km"
              /\ kernel_client' = "kc"
              /\ kernelAlive' = TRUE
              /\ channels_running' = TRUE
              /\ UNCHANGED << buildErr, ret, stopCalls, termCalls, termFailed >>
         ELSE IF handshake = "error" \/ ~cleans
         THEN /\ BuildRaised(IF handshake = "error" THEN "handshake_error"
                             ELSE "handshake_timeout")
              /\ kernel_manager' = "km"
              /\ kernel_client' = "kc"
              /\ kernelAlive' = alive
              /\ channels_running' = TRUE
              /\ UNCHANGED << stopCalls, termCalls, termFailed >>
         ELSE /\ BuildRaised("handshake_timeout")
              /\ stopCalls' = stopCalls + 1
              /\ channels_running' = (stopFails /\ StopGuarded)
              /\ kernel_client' = ClientReleased
              /\ termCalls' = IF alive THEN termCalls + 1 ELSE termCalls
              /\ termFailed' = (alive /\ termFails /\ TermGuarded)
              /\ kernelAlive' = (alive /\ termFails)
              /\ kernel_manager' = ManagerReleased
      /\ UNCHANGED << executed_cells, iopub, emitted, killedMid, shutdowns,
                      builds, marker, pkgs, kspec, creates, installs, atexit,
                      orphans, exited >>
      /\ UNCHANGED callVars
      /\ UNCHANGED agentVars

(* atexit.register(self.shutdown_kernel) and the return of the constructor
   (runtime.py line 53). *)
register_atexit ==
    /\ buildPc = "register"
    /\ buildPc' = "done"
    /\ atexit' = HookRegistered
    /\ ret' = [op |-> "Runtime", kind |-> "returned", id |-> 0, value |-> << >>]
    /\ UNCHANGED << kernel_manager, kernel_client, executed_cells, buildErr,
                    builds, marker, pkgs, kspec, creates, installs, launch,
                    termFailed, orphans, exited >>
    /\ UNCHANGED kernelVars
    /\ UNCHANGED callVars
    /\ UNCHANGED shutVars
    /\ UNCHANGED agentVars

(* The process exits after the last construction ended: the exit hook of
   the Runtime, when one is registered, runs shutdown_kernel
   (runtime.py lines 53, 268-288). *)
process_exit ==
    \E stopFails \in BOOLEAN, termFails \in BOOLEAN :
      LET stopTried == atexit /\ kernel_client # "None" /\ channels_running
          termTried == atexit /\ kernel_manager # "None" /\ kernelAlive
      IN
      /\ buildPc \in {"done", "failed"}
      /\ ~exited
      /\ exited' = TRUE
      /\ stopCalls' = IF stopTried THEN stopCalls + 1 ELSE stopCalls
      /\ channels_running' =
            IF stopTried /\ ~stopFails THEN FALSE ELSE channels_running
      /\ kernel_client' = IF atexit THEN ClientReleased ELSE kernel_client
      /\ termCalls' = IF termTried THEN termCalls + 1 ELSE termCalls
      /\ termFailed' = IF termTried THEN termFails ELSE termFailed
      /\ kernelAlive' = IF termTried /\ ~termFails THEN FALSE ELSE kernelAlive
      /\ kernel_manager' = IF atexit THEN ManagerReleased ELSE kernel_manager
      /\ UNCHANGED << executed_cells, iopub, emitted, killedMid, ret, shutdowns,
                      buildPc, buildErr, builds, marker, pkgs, kspec, creates,
                      installs, launch, atexit, orphans >>
      /\ UNCHANGED callVars
      /\ UNCHANGED agentVars

NextBuild ==
    \/ Runtime_init
    \/ setup_virtual_env
    \/ start_kernel
    \/ register_atexit
    \/ process_exit

SpecBuild == InitBuild /\ [][NextBuild]_vars


---------------------------------------------------------------------------
(* The construction failed because the ready handshake timed out. *)
HandshakeTimedOut == buildPc = "failed" /\ buildErr = "handshake_timeout"

(* C11 (as stated): after a ready handshake that timed out, the channels and
   the kernel process are shut down: no live session and no running kernel
   remain. *)
C11_Original ==
    HandshakeTimedOut =>
        /\ kernel_client = "None" /\ kernel_manager = "None"
        /\ ~channels_running
        /\ ~kernelAlive

(* C11 (amended): when the ready handshake times out, _start_kernel runs
   shutdown_kernel - one request to stop the channels, one request to
   terminate the kernel if it is still running, client and manager released
   - and raises, without registering the exit hook; a kernel keeps running
   only if the termination was requested and failed. *)
C11_HandshakeTimeout ==
    [][ (buildPc = "start" /\ buildErr' = "handshake_timeout")
          => /\ buildPc' = "failed"
             /\ ret'.op = "Runtime" /\ ret'.kind = "raised"
             /\ kernel_client' = "None"
             /\ kernel_manager' = "None"
             /\ stopCalls' = stopCalls + 1
             /\ termCalls' \in {termCalls, termCalls + 1}
             /\ kernelAlive' => (termFailed' /\ termCalls' = termCalls + 1)
             /\ ~atexit' ]_vars

(* A construction failed on a handshake timeout and its clean-up stopped the
   channels and terminated the kernel. *)
C11_Witness ==
    /\ HandshakeTimedOut
    /\ stopCalls = 1 /\ termCalls = 1
    /\ ~kernelAlive /\ ~channels_running
    /\ kernel_client = "None" /\ kernel_manager = "None"

(* C12: _setup_virtual_env called while the marker file exists returns at
   once, creating no environment and installing nothing; over any number of
   constructions on the path, at most one environment is created and the
   packages are installed at most once. *)
C12_ProvisionOnce ==
    /\ [](creates <= 1 /\ installs <= 1)
    /\ [][ (buildPc = "setup" /\ marker)
             => /\ buildPc' = "start"
                /\ creates' = creates
                /\ installs' = installs
                /\ marker' = marker /\ pkgs' = pkgs /\ kspec' = kspec
                /\ ret' = ret ]_vars

(* The second construction on the path has passed _setup_virtual_env with
   the single creation and the single installation of the first one. *)
C12_Witness ==
    /\ builds = 2
    /\ buildPc = "start"
    /\ creates = 1 /\ installs = 1
    /\ pkgs

---------------------------------------------------------------------------
(* The agent loop (src/execution/agent.py) and the tools it dispatches
   (src/execution/tools.py).  Here `caller` runs through "Constructing",
   "Ready", "Executing", "ToolDispatch", "Done" and "Failed".  A text is
   written as the sequence of its parts; a call of Runtime.execute_code is
   taken as a whole, its steps being those of Spec. *)

MaxTurns == 2       \* model calls of one _execute_plan

(* self.tools (agent.py lines 44-49) and the names a model may call. *)
ToolNames == {"execute_code", "generate_app", "list_apps", "import_app"}
CallNames == ToolNames \cup {"bogus"}
RegisteredAny(name) == TRUE
Registered(name) == name \in ToolNames

(* function_call.arguments: a JSON object with the parameters of the tool, a
   JSON value that does not fit them, and a text that is not JSON. *)
ArgTexts == {"{args}", "{other}", "not json"}
Parses(a) == a # "not json"
json_loads(a) == IF a = "{args}" THEN "args" ELSE "other"
Binds(parsed) == parsed = "args"

(* response.output_text and the type of response.output[0] ("none": the
   output list is empty). *)
CompletionToken == "done"
OutputTexts == {CompletionToken, "hello", ""}
FirstTypes == {"function_call", "message", "none"}
IsDoneNever(text) == FALSE
IsDone(text) == text = CompletionToken

(* The output items after response.output[0]: none, or one more function
   call, whose call id is written as a negative number. *)
Rests ==
    { << >>,
      << [name |-> "execute_code", arguments |-> "{args}",
          call_id |-> 0 - (turns + 1)] >> }

Responses ==
    { [status |-> "raised", output_text |-> "", first |-> "none", name |-> "",
       arguments |-> "", call_id |-> 0, rest |-> << >>] }
    \cup
    { [status |-> "ok", output_text |-> t, first |-> "none", name |-> "",
       arguments |-> "", call_id |-> 0, rest |-> << >>] : t \in OutputTexts }
    \cup
    { [status |-> "ok", output_text |-> t, first |-> "message", name |-> "",
       arguments |-> "", call_id |-> 0, rest |-> r] :
         t \in OutputTexts, r \in Rests }
    \cup
    { [status |-> "ok", output_text |-> t, first |-> "function_call",
       name |-> n, arguments |-> a, call_id |-> turns + 1, rest |-> r] :
         t \in {CompletionToken, ""}, n \in CallNames, a \in ArgTexts,
         r \in Rests }

(* function_call = response.output[0] (agent.py line 130). *)
LastCall(r) ==
    IF r.rest = << >>
    THEN [name |-> r.name, arguments |-> r.arguments, call_id |-> r.call_id]
    ELSE r.rest[Len(r.rest)]
FirstCall(r) ==
    [name |-> r.name, arguments |-> r.arguments, call_id |-> r.call_id]

(* The entries of the transcript. *)
Message(role, content) ==
    [kind |-> "message", role |-> role, content |-> content, name |-> "",
     arguments |-> "", call_id |-> 0]
RawCall(r) ==
    [kind |-> "function_call", role |-> "", content |-> << >>,
     name |-> r.name, arguments |-> r.arguments, call_id |-> r.call_id]
ToolResult(id, text) ==
    [kind |-> "function_call_output", role |-> "", content |-> text,
     name |-> "", arguments |-> "", call_id |-> id]
Developer == Message("developer", <<"EXECUTION_USER", "plan">>)
UnknownTool(name) == Message("user", <<"Unknown tool Error: ", name>>)
Diagnostic(e) ==
    Message("user",
            <<"An error occurred, please revise your function call and try again. ", e>>)
AssistantAsUser(text) == Message("user", <<text>>)
Assistant(text) == Message("assistant", <<text>>)

(* self.execution_messages.append(...) of the diagnostic (lines 164-170). *)
DiagnosedSilently(msgs, e) == msgs
DiagnosedInPlace(msgs, e) ==
    IF msgs = << >> THEN << Diagnostic(e) >>
    ELSE [msgs EXCEPT ![Len(msgs)] = Diagnostic(e)]
DiagnosedOnce(msgs, e) ==
    IF msgs # << >> /\ msgs[Len(msgs)] = Diagnostic(e)
    THEN msgs
    ELSE Append(msgs, Diagnostic(e))
Diagnosed(msgs, e) == Append(msgs, Diagnostic(e))

(* The try of the loop body is closed by except Exception (line 162). *)
LoopEscapes == FALSE
LoopCatches == TRUE

(* An exception e raised inside the loop body with the transcript msgs. *)
Caught(msgs, e) ==
    IF LoopCatches
    THEN /\ execution_messages' = Diagnosed(msgs, e)
         /\ caller' = "Executing"
         /\ UNCHANGED ret
    ELSE /\ execution_messages' = msgs
         /\ caller' = "Failed"
         /\ ret' = [op |-> "_execute_plan", kind |-> "raised", id |-> 0,
                    value |-> << >>]

(* "\n".join([str(r) for r in result]) (tools.py lines 140, 204): one part
   per event. *)
StrEvent(e) == IF IsKernelDied(e) THEN "KernelDiedError" ELSE e.type
JoinReversed(outs) == [i \in 1..Len(outs) |-> StrEvent(outs[Len(outs) + 1 - i])]
JoinLines(outs) == [i \in 1..Len(outs) |-> StrEvent(outs[i])]

(* What a whole call of Runtime.execute_code can return. *)
StreamEvent == [type |-> "stream", name |-> "stdout", text |-> <<1, 1>>]
RunOutputs ==
    { << >>, << StreamEvent >>, << KernelDiedEvent >>,
      << StreamEvent, KernelDiedEvent >> }
EndsDied(outs) == outs # << >> /\ IsKernelDied(outs[Len(outs)])

NotFoundText == <<"Error: Could not find app with name ", "app_name">>

Returns(text, called, code, outs) ==
    [kind |-> "returned", text |-> text, called |-> called, code |-> code,
     outs |-> outs]
Raises(e, called) ==
    [kind |-> "raised", text |-> <<e>>, called |-> called, code |-> "",
     outs |-> << >>]

(* ExecuteCodeTool.execute (tools.py lines 138-140): no handler around
   runtime.execute_code. *)
ExecuteCodeTool_outcomes ==
    IF Available
    THEN { Returns(JoinLines(o), TRUE, "print(1)", o) : o \in RunOutputs }
    ELSE { Raises("Kernel not available for execution.", TRUE) }

(* GenerateAppTool.execute (tools.py lines 51-55): no handler around
   generate_and_save_block. *)
GenerateAppTool_outcomes ==
    { Returns(<<"App created successfully: ", "path">>, FALSE, "", << >>),
      Raises("generation failed", FALSE) }

(* ListAppTool.execute (tools.py lines 78-108): only ImportError is handled;
   a module without a class, without app_id or without docstring raises
   AttributeError. *)
ListAppTool_outcomes ==
    { Returns(<<"example.svc", "doc">>, FALSE, "", << >>),
      Returns(<< >>, FALSE, "", << >>),
      Raises("AttributeError", FALSE) }

(* ImportAppTool.execute (tools.py lines 170-208): every exception,
   including the one of runtime.execute_code, is swallowed. *)
ImportAppTool_silent ==
    { Returns(NotFoundText, FALSE, "", << >>),
      Returns(NotFoundText, TRUE, "", << >>) }
ImportAppTool_eager ==
    IF Available
    THEN { Returns(NotFoundText, TRUE, ImportCode, << >>) }
         \cup { Returns(JoinLines(o), TRUE, ImportCode, o) : o \in RunOutputs }
    ELSE { Returns(NotFoundText, TRUE, "", << >>) }
ImportAppTool_outcomes ==
    { Returns(NotFoundText, FALSE, "", << >>) }
    \cup
    ( IF Available
      THEN { Returns(JoinLines(o), TRUE, ImportCode, o) : o \in RunOutputs }
      ELSE { Returns(NotFoundText, TRUE, "", << >>) } )

(* The tool classes and the name each sets on itself (tools.py lines 26,
   60, 113, 145). *)
ToolClasses ==
    {"ExecuteCodeTool", "GenerateAppTool", "ListAppTool", "ImportAppTool"}
ToolName(class) ==
    CASE class = "ExecuteCodeTool" -> "execute_code"
      [] class = "GenerateAppTool" -> "generate_app"
      [] class = "ListAppTool" -> "list_apps"
      [] class = "ImportAppTool" -> "import_app"

(* self.tools (agent.py lines 44-49): the tool each key maps to, and the
   keys in insertion order. *)
KeyOrder == << "execute_code", "generate_app", "list_apps", "import_app" >>
toolsSwapped ==
    [ key \in ToolNames |->
        CASE key = "execute_code" -> "ImportAppTool"
          [] key = "generate_app" -> "GenerateAppTool"
          [] key = "list_apps" -> "ListAppTool"
          [] key = "import_app" -> "ExecuteCodeTool" ]
tools ==
    [ key \in ToolNames |->
        CASE key = "execute_code" -> "ExecuteCodeTool"
          [] key = "generate_app" -> "GenerateAppTool"
          [] key = "list_apps" -> "ListAppTool"
          [] key = "import_app" -> "ImportAppTool" ]

(* self.tool_descs (agent.py lines 50-52): get_tool_desc() of every value of
   self.tools, in key order. *)
tool_descs ==
    [ i \in 1..Len(KeyOrder) |->
        [type |-> "function", name |-> ToolName(tools[KeyOrder[i]])] ]

(* What execute of a tool of the given class can do. *)
ClassOutcomes(class) ==
    CASE class = "ExecuteCodeTool" -> ExecuteCodeTool_outcomes
      [] class = "GenerateAppTool" -> GenerateAppTool_outcomes
      [] class = "ListAppTool" -> ListAppTool_outcomes
      [] class = "ImportAppTool" -> ImportAppTool_outcomes

(* tool = self.tools.get(function_name); tool.execute(...). *)
ToolOutcomes(name) == ClassOutcomes(tools[name])

runVars == << pc, msg_id, code_string, outputs, inFlight, lastPoll >>
objVars == << kernel_manager, kernel_client, channels_running, iopub, emitted,
             killedMid >>

(* Before Agent(...) is constructed. *)
InitAgent ==
    /\ kernel_manager = "None"
    /\ kernel_client = "None"
    /\ executed_cells = << >>
    /\ kernelAlive = FALSE
    /\ channels_running = FALSE
    /\ iopub = << >>
    /\ shell = << >>
    /\ caller = "Constructing"
    /\ pc = "none"
    /\ msg_id = 0
    /\ code_string = ""
    /\ outputs = << >>
    /\ ret = NoRet
    /\ calls = 0
    /\ returns = 0
    /\ inFlight = {}
    /\ emitted = 0
    /\ lastPoll = NoPoll
    /\ killedMid = 0
    /\ shutdowns = 0
    /\ stopCalls = 0
    /\ termCalls = 0
    /\ buildPc = "setup"
    /\ buildErr = "none"
    /\ builds = 1
    /\ marker = FALSE
    /\ pkgs = FALSE
    /\ kspec = FALSE
    /\ creates = 0
    /\ installs = 0
    /\ launch = "none"
    /\ atexit = FALSE
    /\ termFailed = FALSE
    /\ orphans = 0
    /\ exited = FALSE
    /\ execution_messages = << >>
    /\ function_call = NoCall
    /\ turns = 0
    /\ invoked = << >>
    /\ response = NoResponse

(* Agent.__init__ (agent.py lines 37-55): Runtime() either leaves the state
   Init describes or raises, and then the agent is never built. *)
Agent_init ==
    \E built \in BOOLEAN, step \in {"install", "start_kernel", "handshake_timeout"} :
      /\ caller = "Constructing"
      /\ IF built
         THEN /\ caller' = "Ready"
              /\ kernel_manager' = "km"
              /\ kernel_client' = "kc"
              /\ kernelAlive' = TRUE
              /\ channels_running' = TRUE
              /\ buildPc' = "done"
              /\ marker' = TRUE /\ pkgs' = TRUE /\ kspec' = TRUE
              /\ creates' = 1 /\ installs' = 1
              /\ launch' = "spec"
              /\ atexit' = TRUE
              /\ UNCHANGED << buildErr, ret >>
         ELSE /\ caller' = "Failed"
              /\ buildPc' = "failed"
              /\ buildErr' = step
              /\ ret' = [op |-> "Agent", kind |-> "raised", id |-> 0,
                         value |-> << >>]
              /\ UNCHANGED << kernel_manager, kernel_client, kernelAlive,
                              channels_running, marker, pkgs, kspec, creates,
                              installs, launch, atexit >>
      /\ UNCHANGED << executed_cells, iopub, emitted, killedMid, builds,
                      termFailed, orphans, exited, calls, returns, shell >>
      /\ UNCHANGED runVars
      /\ UNCHANGED shutVars
      /\ UNCHANGED agentVars

(* The head of _execute_plan (agent.py lines 109-114), called by run. *)
execute_plan ==
    /\ caller = "Ready"
    /\ caller' = "Executing"
    /\ execution_messages' = << Developer >>
    /\ UNCHANGED << function_call, turns, invoked, response, ret,
                    executed_cells, kernelAlive, calls, returns, shell >>
    /\ UNCHANGED objVars
    /\ UNCHANGED runVars
    /\ UNCHANGED shutVars
    /\ UNCHANGED buildVars

(* self.llm.responses.create(...) (agent.py lines 117-121). *)
responses_create ==
    \E r \in Responses :
      /\ caller = "Executing"
      /\ response.status \in {"none", "handled"}
      /\ turns < MaxTurns
      /\ turns' = turns + 1
      /\ response' = r
      /\ UNCHANGED << execution_messages, function_call, invoked, caller, ret,
                      executed_cells, kernelAlive, calls, returns, shell >>
      /\ UNCHANGED objVars
      /\ UNCHANGED runVars
      /\ UNCHANGED shutVars
      /\ UNCHANGED buildVars

(* The loop body from the completion check to the append of the raw call
   (agent.py lines 126-144, 156-170). *)
handle_response ==
    /\ caller = "Executing"
    /\ response.status \in {"ok", "raised"}
    /\ IF response.status = "raised"
       THEN /\ Caught(execution_messages, "APIError")
            /\ response' = NoResponse
            /\ UNCHANGED function_call
       ELSE IF IsDone(response.output_text)
       THEN /\ caller' = "Done"
            /\ response' = NoResponse
            /\ ret' = [op |-> "_execute_plan", kind |-> "returned", id |-> 0,
                       value |-> << >>]
            /\ UNCHANGED << execution_messages, function_call >>
       ELSE IF response.first = "none"
       THEN /\ Caught(execution_messages, "IndexError")
            /\ response' = NoResponse
            /\ UNCHANGED function_call
       ELSE IF response.first = "function_call"
       THEN IF ~Parses(response.arguments)
            THEN /\ Caught(execution_messages, "JSONDecodeError")
                 /\ response' = NoResponse
                 /\ UNCHANGED function_call
            ELSE IF ~Registered(response.name)
            THEN /\ execution_messages' =
                        Append(execution_messages, UnknownTool(response.name))
                 /\ response' = NoResponse
                 /\ UNCHANGED << caller, function_call, ret >>
            ELSE /\ execution_messages' =
                        Append(execution_messages, RawCall(response))
                 /\ function_call' = FirstCall(response)
                 /\ caller' = "ToolDispatch"
                 /\ UNCHANGED << response, ret >>
       ELSE /\ execution_messages' =
                   Append(execution_messages, Assistant(response.output_text))
            /\ response' = NoResponse
            /\ UNCHANGED << caller, function_call, ret >>
    /\ UNCHANGED << turns, invoked, executed_cells, kernelAlive, calls,
                    returns, shell >>
    /\ UNCHANGED objVars
    /\ UNCHANGED runVars
    /\ UNCHANGED shutVars
    /\ UNCHANGED buildVars

(* The call of tool.execute with the parsed arguments and the append of
   its result
   (agent.py lines 146-154, 162-170). *)
tool_execute ==
    /\ caller = "ToolDispatch"
    /\ function_call' = NoCall
    /\ LET parsed == json_loads(function_call.arguments) IN
       IF ~Binds(parsed)
       THEN /\ Caught(execution_messages, "TypeError")
            /\ UNCHANGED << invoked, executed_cells, kernelAlive, calls,
                            returns, shell >>
       ELSE \E o \in ToolOutcomes(function_call.name) :
              /\ invoked' = Append(invoked,
                                   [name |-> function_call.name,
                                    args |-> parsed,
                                    call_id |-> function_call.call_id,
                                    kind |-> o.kind,
                                    text |-> o.text])
              /\ calls' = IF o.called THEN calls + 1 ELSE calls
              /\ IF o.called /\ Available
                 THEN /\ shell' = Append(shell, [msg_id |-> Len(shell) + 1,
                                                code |-> o.code])
                      /\ returns' = returns + 1
                      /\ executed_cells' = Recorded(executed_cells, o.code, o.outs)
                      /\ kernelAlive' = ~EndsDied(o.outs)
                 ELSE UNCHANGED << shell, returns, executed_cells, kernelAlive >>
              /\ IF o.kind = "returned"
                 THEN /\ execution_messages' =
                             Append(execution_messages,
                                    ToolResult(function_call.call_id, o.text))
                      /\ caller' = "Executing"
                      /\ UNCHANGED ret
                 ELSE Caught(execution_messages, o.text[1])
    /\ response' = [response EXCEPT !.status = "handled"]
    /\ UNCHANGED turns
    /\ UNCHANGED objVars
    /\ UNCHANGED runVars
    /\ UNCHANGED shutVars
    /\ UNCHANGED buildVars

NextAgent ==
    \/ Agent_init
    \/ execute_plan
    \/ responses_create
    \/ handle_response
    \/ tool_execute
    \/ KernelDie

SpecAgent == InitAgent /\ [][NextAgent]_vars

---------------------------------------------------------------------------
(* Claims about the agent loop. *)

IsPrefix(a, b) == Len(a) <= Len(b) /\ SubSeq(b, 1, Len(a)) = a
LastOf(msgs) == msgs[Len(msgs)]

(* The step in which the loop body handles the response of the model. *)
HandleStep ==
    /\ caller = "Executing"
    /\ response.status \in {"ok", "raised"}
    /\ response' = NoResponse \/ caller' = "ToolDispatch"

(* The step in which the dispatched tool call ends. *)
DispatchStep ==
    /\ caller = "ToolDispatch"
    /\ function_call' = NoCall

(* The response holds a function call naming a tool outside the registry. *)
CallsUnknown ==
    /\ response.status = "ok"
    /\ response.first = "function_call"
    /\ response.name \notin ToolNames

(* The response holds a function call naming a registered tool. *)
CallsRegistered ==
    /\ response.status = "ok"
    /\ response.first = "function_call"
    /\ response.name \in ToolNames

(* What handling an unknown tool is claimed to do. *)
UnknownToolHandled ==
    /\ execution_messages' =
          Append(execution_messages, UnknownTool(response.name))
    /\ invoked' = invoked
    /\ function_call' = NoCall
    /\ caller' = "Executing"
    /\ ret' = ret

(* C13 (as stated): whenever the function call of the model names a tool
   that is not in the registry, the loop appends one unknown-tool message,
   invokes no tool, does not append the raw call and goes on with the next
   model turn. *)
C13_Original ==
    [][ (HandleStep /\ CallsUnknown) => UnknownToolHandled ]_vars

(* C13 (amended): the same, for a response whose output text is not the
   completion token and whose function-call arguments parse as JSON. *)
C13_UnknownTool ==
    [][ (/\ HandleStep
         /\ CallsUnknown
         /\ response.output_text # "done"
         /\ response.arguments # "not json") => UnknownToolHandled ]_vars

(* An unknown-tool message was appended after earlier turns, and the loop
   is back in Executing with no tool invoked. *)
C13_Witness ==
    /\ caller = "Executing"
    /\ response = NoResponse
    /\ Len(execution_messages) >= 3
    /\ LastOf(execution_messages) = UnknownTool("bogus")
    /\ invoked = << >>

(* C14 (as stated): for a function call naming a registered tool, with
   arguments that parse and fit the tool's parameters, the loop appends the
   raw call, then invokes the tool's execute once with the parsed arguments,
   then appends a tool-result message with the call's id and the text the
   tool returned, and is back in Executing. *)
C14_Original ==
    [][ /\ (/\ HandleStep
            /\ CallsRegistered
            /\ response.output_text # "done"
            /\ response.arguments = "{args}")
           => /\ execution_messages' =
                    Append(execution_messages, RawCall(response))
              /\ invoked' = invoked
              /\ caller' = "ToolDispatch"
        /\ (DispatchStep /\ function_call.arguments = "{args}")
           => /\ LastOf(execution_messages).kind = "function_call"
              /\ LastOf(execution_messages).call_id = function_call.call_id
              /\ Len(invoked') = Len(invoked) + 1
              /\ SubSeq(invoked', 1, Len(invoked)) = invoked
              /\ LastOf(invoked').name = function_call.name
              /\ LastOf(invoked').args = json_loads(function_call.arguments)
              /\ LastOf(invoked').kind = "returned"
              /\ execution_messages' =
                    Append(execution_messages,
                           ToolResult(function_call.call_id,
                                      LastOf(invoked').text))
              /\ caller' = "Executing" ]_vars

(* C15 (as stated): no call of a tool's execute raises to the agent loop. *)
C15_Original ==
    \A i \in 1..Len(invoked) : invoked[i].kind = "returned"

(* C16: when the output text of the response is exactly 'done',
   _execute_plan leaves the loop: the agent is Done, nothing was appended
   to the transcript and no tool was dispatched, whatever else the response
   holds. *)
C16_Done ==
    [][ (/\ HandleStep
         /\ response.status = "ok"
         /\ response.output_text = "done")
        => /\ caller' = "Done"
           /\ execution_messages' = execution_messages
           /\ invoked' = invoked
           /\ function_call' = function_call
           /\ ret'.op = "_execute_plan" /\ ret'.kind = "returned" ]_vars

(* The loop ended on the completion token after a tool call was served. *)
C16_Witness ==
    /\ caller = "Done"
    /\ ret.op = "_execute_plan"
    /\ Len(invoked) = 1
    /\ LastOf(execution_messages).kind = "function_call_output"

(* The exception the model call or the parsing of the response raises. *)
ResponseFails ==
    \/ response.status = "raised"
    \/ /\ response.status = "ok"
       /\ response.output_text # "done"
       /\ \/ response.first = "none"
          \/ response.first = "function_call" /\ response.arguments = "not json"
FailureText ==
    IF response.status = "raised" THEN "APIError"
    ELSE IF response.first = "none" THEN "IndexError"
    ELSE "JSONDecodeError"

(* C17: an exception raised by the model call or while parsing the response
   (unparsable function-call arguments included) appends exactly one
   user-role message that contains the failure text, and the loop is in
   Executing again, however many such failures came before. *)
C17_Diagnostic ==
    [][ (HandleStep /\ ResponseFails)
        => /\ Len(execution_messages') = Len(execution_messages) + 1
           /\ IsPrefix(execution_messages, execution_messages')
           /\ LastOf(execution_messages').kind = "message"
           /\ LastOf(execution_messages').role = "user"
           /\ LastOf(execution_messages').content[2] = FailureText
           /\ invoked' = invoked
           /\ caller' = "Executing" ]_vars

(* Every model call so far failed, each one left its diagnostic, and the
   loop is ready to try again. *)
C17_Witness ==
    /\ caller = "Executing"
    /\ response = NoResponse
    /\ turns = MaxTurns
    /\ Len(execution_messages) = MaxTurns + 1
    /\ \A i \in 2..Len(execution_messages) :
          /\ execution_messages[i].role = "user"
          /\ execution_messages[i].content[2] \in
                {"APIError", "IndexError", "JSONDecodeError"}
    /\ \E i \in 2..Len(execution_messages) :
          execution_messages[i].content[2] = "JSONDecodeError"

(* C18: within one run of _execute_plan every step leaves the previous
   transcript as a prefix of the new one. *)
C18_TranscriptAppendOnly ==
    [][ IsPrefix(execution_messages, execution_messages') ]_vars

(* The transcript holds a raw call, its diagnostic after the tool raised,
   and a later entry. *)
C18_Witness ==
    /\ Len(execution_messages) >= 4
    /\ execution_messages[2].kind = "function_call"
    /\ execution_messages[3].role = "user"
    /\ execution_messages[4].kind = "message"

(* C19: from Executing the loop reaches no terminal state but Done, and no
   exception leaves _execute_plan; the agent is Failed only when its
   construction raised, before any model call. *)
C19_OnlyDone ==
    /\ [](caller = "Failed"
            => /\ buildPc = "failed"
               /\ ret.op = "Agent"
               /\ turns = 0
               /\ execution_messages = << >>)
    /\ [](~(ret.op = "_execute_plan" /\ ret.kind = "raised"))
    /\ [][ (caller \in {"Executing", "ToolDispatch", "Done"})
             => (caller' \in {"Executing", "ToolDispatch", "Done"}) ]_vars

(* The loop ended normally after a tool raised and left its diagnostic. *)
C19_Witness ==
    /\ caller = "Done"
    /\ \E i \in 1..Len(invoked) : invoked[i].kind = "raised"
    /\ LastOf(execution_messages).role = "user"
    /\ ret.op = "_execute_plan" /\ ret.kind = "returned"

---------------------------------------------------------------------------
(* An execute_code call of this Runtime returned a KernelDied event: the
   history holds a record whose last event is that event. *)
DiedSeen ==
    \E i \in 1..Len(executed_cells) :
        /\ executed_cells[i].outputs # << >>
        /\ IsKernelDied(executed_cells[i].outputs[Len(executed_cells[i].outputs)])

(* C20: once execute_code has returned a KernelDied event, the kernel is
   never alive again, every later execute_code raises without writing a
   request or touching the history, and get_executed_cells still returns
   the whole history. *)
C20_DeadSession ==
    /\ [](DiedSeen => ~kernelAlive)
    /\ [][ (DiedSeen /\ calls' = calls + 1)
             => /\ ret'.op = "execute_code" /\ ret'.kind = "raised"
                /\ shell' = shell
                /\ pc' = "none"
                /\ executed_cells' = executed_cells ]_vars
    /\ [][ (DiedSeen /\ ret' # ret /\ ret'.op = "get_executed_cells")
             => /\ ret'.kind = "returned"
                /\ ret'.value = executed_cells
                /\ executed_cells' = executed_cells ]_vars

(* After a call returned KernelDied, a second call raised and the history,
   with the record of the first call, was read. *)
C20_Witness ==
    /\ DiedSeen
    /\ calls = 2 /\ returns = 1
    /\ pc = "none"
    /\ ret.op = "get_executed_cells"
    /\ ret.value = executed_cells
    /\ Len(executed_cells) = 1

---------------------------------------------------------------------------
(* C21: a pip install that ran and failed makes the construction raise at
   once; a construction that failed in provisioning has started no kernel,
   holds no manager and no client, and does nothing more: the next step, if
   any, is the construction of another Runtime or the exit of the process. *)
C21_InstallFatal ==
    /\ [][ (buildPc = "setup" /\ installs' = installs + 1 /\ ~pkgs')
             => /\ buildPc' = "failed"
                /\ buildErr' = "install"
                /\ ret'.op = "Runtime" /\ ret'.kind = "raised"
                /\ kernelAlive' = kernelAlive
                /\ launch' = launch ]_vars
    /\ []((buildErr \in {"create", "install"})
            => /\ buildPc = "failed"
               /\ launch = "none"
               /\ ~kernelAlive
               /\ ~channels_running
               /\ kernel_manager = "None"
               /\ kernel_client = "None"
               /\ ~atexit)
    /\ [][ (buildPc = "failed")
             => \/ buildPc' = "setup" /\ builds' = builds + 1
                \/ /\ exited'
                   /\ buildPc' = "failed"
                   /\ launch' = launch
                   /\ kernelAlive' = kernelAlive ]_vars

(* The installation ran once, failed, and the construction raised with no
   kernel started. *)
C21_Witness ==
    /\ buildPc = "failed"
    /\ buildErr = "install"
    /\ installs = 1
    /\ ~pkgs
    /\ launch = "none"
    /\ ret.op = "Runtime" /\ ret.kind = "raised"

---------------------------------------------------------------------------
(* C22 (as stated): a failed registration of the kernel specification lets
   provisioning return normally, and a start step that finds no kernel
   under the specification name launches the kernel by the direct command
   and does not fail for the missing specification. *)
C22_Original ==
    /\ [][ (buildPc = "setup" /\ installs' = installs + 1 /\ pkgs')
             => (buildPc' = "start" /\ ret' = ret) ]_vars
    /\ [][ (buildPc = "start" /\ ~kspec)
             => (launch' = "direct" /\ buildErr' # "no_such_kernel") ]_vars

---------------------------------------------------------------------------
(* The step in which the process exits with a completed Runtime whose
   shutdown_kernel was never called. *)
ExitStep ==
    /\ ~exited /\ exited'
    /\ buildPc = "done"
    /\ shutdowns = 0

(* C23 (as stated): every completed construction has registered
   shutdown_kernel at exit, so at process exit the kernel of the Runtime is
   terminated although shutdown_kernel was never called explicitly. *)
C23_Original ==
    /\ [](buildPc = "done" => atexit)
    /\ [][ ExitStep => ~kernelAlive' ]_vars

(* C23 (amended): every completed construction has registered
   shutdown_kernel at exit, so at process exit the channels are asked to
   stop and the kernel is asked to terminate although shutdown_kernel was
   never called explicitly; client and manager are released, and the kernel
   is still running afterwards only if the termination request failed. *)
C23_ExitHook ==
    /\ [](buildPc = "done" => atexit)
    /\ [][ (ExitStep /\ kernelAlive)
             => /\ termCalls' = termCalls + 1
                /\ channels_running => stopCalls' = stopCalls + 1
                /\ kernel_client' = "None"
                /\ kernel_manager' = "None"
                /\ kernelAlive' => termFailed' ]_vars

(* The process exited with a completed Runtime never shut down explicitly,
   and the exit hook terminated its kernel. *)
C23_Witness ==
    /\ exited
    /\ buildPc = "done"
    /\ shutdowns = 0
    /\ termCalls = 1
    /\ ~kernelAlive
    /\ kernel_manager = "None"

---------------------------------------------------------------------------
(* C24: at most one tool is dispatched per model response, and it is the
   first output item: every call in the transcript and every executed call
   carries the id of the first item of a response, no response is executed
   twice, and the call a dispatch executes is the first item of the response
   being handled; a further function call of the response is neither
   executed nor appended. *)
C24_FirstCallOnly ==
    /\ [](/\ \A i \in 1..Len(execution_messages) :
                execution_messages[i].call_id >= 0
          /\ \A i \in 1..Len(invoked) : invoked[i].call_id > 0
          /\ \A i, j \in 1..Len(invoked) :
                i < j => invoked[i].call_id < invoked[j].call_id
          /\ Len(invoked) <= turns
          /\ function_call.call_id >= 0)
    /\ [][ (HandleStep /\ response.rest # << >>)
             => /\ Len(execution_messages') <= Len(execution_messages) + 1
                /\ invoked' = invoked
                /\ function_call' \in {NoCall, FirstCall(response)} ]_vars
    /\ [][ (DispatchStep /\ invoked' # invoked)
             => /\ Len(invoked') = Len(invoked) + 1
                /\ LastOf(invoked').call_id = response.call_id
                /\ LastOf(invoked').name = response.name ]_vars

(* A response that held a second function call has been handled: its first
   call was executed and answered, the second one left no trace. *)
C24_Witness ==
    /\ caller = "Executing"
    /\ response.status = "handled"
    /\ response.rest # << >>
    /\ Len(invoked) = 1
    /\ LastOf(invoked).call_id = response.call_id
    /\ LastOf(execution_messages) =
          ToolResult(response.call_id, LastOf(invoked).text)
    /\ Len(execution_messages) = 3

---------------------------------------------------------------------------
(* The step in which import_app, called with fitting arguments, found a
   persisted class whose app_id is the requested name and called
   Runtime.execute_code. *)
ImportFoundStep ==
    /\ DispatchStep
    /\ function_call.name = "import_app"
    /\ function_call.arguments = "{args}"
    /\ calls' = calls + 1

(* The text is the rendering of output the kernel printed, with no error
   event in it. *)
SuccessText(text) ==
    /\ text # << >>
    /\ \A i \in 1..Len(text) : text[i] = "stream"

(* C25 (as stated): import_app(a), when a persisted class C has app_id a,
   submits the import code of C to the session and returns a success text
   mentioning C. *)
C25_Original ==
    [][ ImportFoundStep
          => /\ Len(shell') = Len(shell) + 1
             /\ LastOf(shell').code = ImportCode
             /\ LastOf(invoked').kind = "returned"
             /\ SuccessText(LastOf(invoked').text) ]_vars

(* C25 (amended): import_app(a), when a persisted class C has app_id a,
   never raises; when the session is available it submits the import code
   of C in one execute_code call and returns the joined string forms of the
   events of that execution, which are the success text only if the kernel
   printed it without error; when the session is not available it submits
   nothing and returns the not-found error text. *)
C25_ImportApp ==
    [][ ImportFoundStep
          => /\ LastOf(invoked').kind = "returned"
             /\ IF Available
                THEN /\ shell' = Append(shell, [msg_id |-> Len(shell) + 1,
                                               code |-> ImportCode])
                     /\ Len(executed_cells') = Len(executed_cells) + 1
                     /\ LastOf(executed_cells').code = ImportCode
                     /\ LastOf(invoked').text =
                           JoinLines(LastOf(executed_cells').outputs)
                ELSE /\ shell' = shell
                     /\ executed_cells' = executed_cells
                     /\ LastOf(invoked').text = NotFoundText ]_vars

(* import_app found the class, the session ran the import code and printed,
   and the printed text came back as the tool result. *)
C25_Witness ==
    /\ caller = "Executing"
    /\ invoked # << >>
    /\ LastOf(invoked).name = "import_app"
    /\ SuccessText(LastOf(invoked).text)
    /\ shell # << >>
    /\ LastOf(shell).code = ImportCode
    /\ LastOf(executed_cells).code = ImportCode
    /\ LastOf(execution_messages) =
          ToolResult(LastOf(invoked).call_id, LastOf(invoked).text)

---------------------------------------------------------------------------
(* C26: a constructed Runtime holds its one manager and its one client until
   shutdown_kernel is called, whatever happens to the kernel; the only
   change either reference ever undergoes is its release by
   shutdown_kernel; after a shutdown the Runtime holds neither. *)
C26_OneSession ==
    /\ [](shutdowns = 0 => (kernel_manager = "km" /\ kernel_client = "kc"))
    /\ [](shutdowns > 0 => (kernel_manager = "None" /\ kernel_client = "None"))
    /\ [][ (kernel_manager' # kernel_manager \/ kernel_client' # kernel_client)
             => /\ shutdowns' = shutdowns + 1
                /\ kernel_manager' = "None"
                /\ kernel_client' = "None" ]_vars

(* The session served a call and survived the death of its kernel as a
   held, unusable session; then shutdown_kernel released it. *)
C26_Witness ==
    /\ shutdowns = 1
    /\ kernel_manager = "None"
    /\ kernel_client = "None"
    /\ Len(executed_cells) >= 1
    /\ ~kernelAlive
    /\ termCalls = 0

---------------------------------------------------------------------------
(* Message types the pump turns into events. *)
OutputTypes == {"stream", "display_data", "execute_result", "error"}

(* A turn of the pump that received a message. *)
PollStep == pc = "pump" /\ iopub # << >> /\ iopub' = Tail(iopub)

(* The events of outs the pump made from kernel messages, and the number of
   events of outs of a given type. *)
KernelMade(outs) == { i \in 1..Len(outs) : ~IsKernelDied(outs[i]) }
Count(outs, type) == Cardinality({ i \in 1..Len(outs) : outs[i].type = type })
CountMade(outs, type) ==
    Cardinality({ i \in KernelMade(outs) : outs[i].type = type })

(* execute_code returned and every message the kernel ever published is
   accounted for: all of them were received by this call, all but at most one
   (the idle status, or one skipped message) became the events of the
   returned value.  The output messages the kernel emitted for this
   submission are then exactly the ones the kernel-made events stand for. *)
Accounted ==
    /\ Returned
    /\ emitted <= Cardinality(KernelMade(ret.value)) + 1

(* C27 as stated, second sentence: a submission for which the kernel emitted
   exactly one error (or one execute_result) message returns exactly one
   error (or one result) event. *)
C27_Original ==
    /\ (Accounted /\ CountMade(ret.value, "error") = 1)
          => Count(ret.value, "error") = 1
    /\ (Accounted /\ CountMade(ret.value, "execute_result") = 1)
          => Count(ret.value, "execute_result") = 1

(* C27: a received stream, display_data, execute_result or error message of
   the current request appends exactly one event of the same variant with
   the message's payload and the pump goes on; any other received message
   appends nothing (the idle status of the request ends the pump with the
   events gathered so far).  A submission for which the kernel emitted one
   error message returns that one error event, followed by the synthetic
   KernelDied error event when the pump ended on the death of the kernel;
   one execute_result message gives exactly one result event. *)
C27_OneToOne ==
    /\ [][ PollStep =>
             LET io_msg == Head(iopub) IN
               IF Relevant(io_msg, msg_id) /\ io_msg.msg_type \in OutputTypes
               THEN /\ pc' = "pump"
                    /\ Len(outputs') = Len(outputs) + 1
                    /\ IsPrefix(outputs, outputs')
                    /\ LastOf(outputs').type = io_msg.msg_type
                    /\ EventText(LastOf(outputs')) = io_msg.text
               ELSE \/ outputs' = outputs /\ pc' = "pump"
                    \/ /\ Relevant(io_msg, msg_id) /\ EndsPump(io_msg)
                       /\ pc' = "none"
                       /\ ret'.kind = "returned"
                       /\ ret'.value = outputs ]_vars
    /\ []((Accounted /\ CountMade(ret.value, "error") = 1)
            => \/ Count(ret.value, "error") = 1
               \/ /\ Count(ret.value, "error") = 2
                  /\ IsKernelDied(LastOf(ret.value))
                  /\ ~kernelAlive)
    /\ []((Accounted /\ CountMade(ret.value, "execute_result") = 1)
            => Count(ret.value, "execute_result") = 1)

(* The kernel published one error message and the idle status for a
   submission, and the call returned exactly the one error event. *)
C27_Witness ==
    /\ Accounted
    /\ emitted = 2
    /\ kernelAlive
    /\ Len(ret.value) = 1
    /\ ret.value[1].type = "error"
    /\ ~IsKernelDied(ret.value[1])
    /\ Origin(ret.value[1]) = ret.id

---------------------------------------------------------------------------
(* The loop handles a response whose text is not the completion token and
   whose first output item is a message. *)
PlainStep ==
    /\ HandleStep
    /\ response.status = "ok"
    /\ response.first = "message"
    /\ ~IsDone(response.output_text)

(* C28: handling a plain message appends exactly one entry to the
   transcript, the assistant-role message with the response text, calls no
   tool and submits nothing to the session, and leaves the loop in
   Executing with the response consumed, whatever follows the first output
   item. *)
C28_PlainMessage ==
    [][ PlainStep =>
          /\ Len(execution_messages') = Len(execution_messages) + 1
          /\ IsPrefix(execution_messages, execution_messages')
          /\ LastOf(execution_messages').kind = "message"
          /\ LastOf(execution_messages').role = "assistant"
          /\ LastOf(execution_messages').content = << response.output_text >>
          /\ invoked' = invoked
          /\ function_call' = function_call
          /\ function_call = NoCall
          /\ calls' = calls
          /\ shell' = shell
          /\ caller' = "Executing"
          /\ response' = NoResponse ]_vars

(* After an executed tool call the model answered with plain text, which is
   now the last entry of the transcript, behind the tool result. *)
C28_Witness ==
    /\ caller = "Executing"
    /\ response = NoResponse
    /\ Len(invoked) = 1
    /\ Len(execution_messages) = 4
    /\ execution_messages[3].kind = "function_call_output"
    /\ LastOf(execution_messages).role = "assistant"
    /\ LastOf(execution_messages).content = << "hello" >>

---------------------------------------------------------------------------
(* The dispatched execute_code tool returned. *)
ExecuteReturnedStep ==
    /\ DispatchStep
    /\ function_call.name = "execute_code"
    /\ invoked' # invoked
    /\ LastOf(invoked').kind = "returned"

(* C29: the text the execute_code tool returns has one line per event
   Runtime.execute_code returned for the submission, the string form of that
   event, in the order of the events; no event gives the empty text.  That
   text is what the loop appends as the result of the call. *)
C29_ResultText ==
    [][ ExecuteReturnedStep =>
          /\ Len(executed_cells') = Len(executed_cells) + 1
          /\ LET outs == LastOf(executed_cells').outputs
                 text == LastOf(invoked').text
             IN /\ Len(text) = Len(outs)
                /\ \A i \in 1..Len(outs) : text[i] = StrEvent(outs[i])
                /\ (outs = << >>) => (text = << >>)
                /\ LastOf(execution_messages') =
                      ToolResult(function_call.call_id, text) ]_vars

(* Two execute_code calls returned: the first produced no event and the
   empty text, the second a stream event and then the KernelDied event, and
   the text names them in that order. *)
C29_Witness ==
    /\ Len(invoked) = 2
    /\ invoked[1].name = "execute_code"
    /\ invoked[1].kind = "returned"
    /\ invoked[1].text = << >>
    /\ invoked[2].name = "execute_code"
    /\ invoked[2].text = << "stream", "KernelDiedError" >>
    /\ Len(executed_cells) = 2
    /\ executed_cells[1].outputs = << >>
    /\ executed_cells[2].outputs = << StreamEvent, KernelDiedEvent >>
    /\ LastOf(execution_messages).content = invoked[2].text

---------------------------------------------------------------------------
(* The Agent has been constructed. *)
AgentBuilt == caller \in {"Ready", "Executing", "ToolDispatch", "Done"}

(* C30: in a constructed Agent the names of the descriptors are pairwise
   distinct, every key of the registry is the name of the tool it maps to,
   every name of a descriptor is a key that maps to the tool of that name,
   and a call dispatched under a name runs the tool that carries this
   name. *)
C30_Registry ==
    /\ [](AgentBuilt =>
            /\ \A i, j \in 1..Len(tool_descs) :
                  i # j => tool_descs[i].name # tool_descs[j].name
            /\ \A key \in DOMAIN tools : ToolName(tools[key]) = key
            /\ \A i \in 1..Len(tool_descs) :
                  /\ tool_descs[i].name \in DOMAIN tools
                  /\ ToolName(tools[tool_descs[i].name]) = tool_descs[i].name
            /\ { tool_descs[i].name : i \in 1..Len(tool_descs) } = DOMAIN tools)
    /\ [][ (DispatchStep /\ invoked' # invoked)
             => \E class \in ToolClasses :
                  /\ ToolName(class) = function_call.name
                  /\ \E o \in ClassOutcomes(class) :
                        /\ o.kind = LastOf(invoked').kind
                        /\ o.text = LastOf(invoked').text ]_vars

(* The model called list_apps by the name of its descriptor and received the
   listing only ListAppTool produces. *)
C30_Witness ==
    /\ AgentBuilt
    /\ caller = "Executing"
    /\ invoked # << >>
    /\ LastOf(invoked).name = "list_apps"
    /\ LastOf(invoked).kind = "returned"
    /\ LastOf(invoked).text = << "example.svc", "doc" >>
    /\ LastOf(execution_messages) =
          ToolResult(LastOf(invoked).call_id, LastOf(invoked).text)

---------------------------------------------------------------------------
(* The loop sends the transcript to the model. *)
SendStep == caller = "Executing" /\ turns' = turns + 1

(* Every function call of msgs is directly followed by the tool result that
   carries its call id. *)
Answered(msgs) ==
    \A i \in 1..Len(msgs) :
        msgs[i].kind = "function_call"
           => /\ i < Len(msgs)
              /\ msgs[i + 1].kind = "function_call_output"
              /\ msgs[i + 1].call_id = msgs[i].call_id

(* C31 (as stated): whenever the loop sends the transcript to the model,
   each function-call entry of the transcript is immediately followed by a
   tool-result entry with the same call id, also after a dispatched tool
   failed. *)
C31_Original ==
    [][ SendStep => Answered(execution_messages) ]_vars

---------------------------------------------------------------------------
(* The transcript grew by exactly one entry. *)
GrewByOne ==
    /\ Len(execution_messages') = Len(execution_messages) + 1
    /\ IsPrefix(execution_messages, execution_messages')

(* The loop is about to call the model. *)
AwaitsModel == caller = "Executing" /\ response.status \in {"none", "handled"}

(* C32: every handling of a response that does not end the loop appends one
   entry to the transcript, and so does the end of every dispatched call;
   the model is called only after the previous response was handled, hence
   with a transcript that is longer than the one of the previous call: by
   the time the loop calls the model for the k-th time the transcript holds
   at least k entries, the first being the developer message. *)
C32_Progress ==
    /\ [][ (HandleStep /\ caller' # "Done") => GrewByOne ]_vars
    /\ [][ DispatchStep => GrewByOne ]_vars
    /\ [][ SendStep => (AwaitsModel /\ ~AwaitsModel'
                        /\ execution_messages' = execution_messages) ]_vars
    /\ [](AwaitsModel => Len(execution_messages) >= turns + 1)
    /\ []((caller \in {"Executing", "ToolDispatch"} /\ ~AwaitsModel)
             => Len(execution_messages) >= turns)

(* The model failed twice in a row: each failure added its own diagnostic,
   so the second call saw a longer transcript than the first. *)
C32_Witness ==
    /\ AwaitsModel
    /\ turns = 2
    /\ invoked = << >>
    /\ Len(execution_messages) = 3
    /\ execution_messages[2] = Diagnostic("APIError")
    /\ execution_messages[3] = Diagnostic("APIError")

---------------------------------------------------------------------------
(* The dispatched import_app tool ended; it called Runtime.execute_code, which
   it does when and only when a persisted class carries the requested
   app_id, if the count of execute_code calls went up. *)
ImportStep ==
    /\ DispatchStep
    /\ function_call.name = "import_app"
    /\ invoked' # invoked
ImportMatched == calls' = calls + 1

(* C33 (as stated): import_app returns the could-not-find-app text only when
   no persisted class has the requested app_id; a failure after a matching
   class was found is not reported as app-not-found. *)
C33_Original ==
    [][ (ImportStep /\ LastOf(invoked').text = NotFoundText)
          => ~ImportMatched ]_vars

(* C34: one import_app call makes at most one execute_code call, writes at
   most one request to the session and adds at most one record to the
   history; when no class matches - which is the case whenever the
   not-found text is returned with the session available - it makes no
   execute_code call and leaves the session, the kernel and the history as
   they were. *)
C34_AtMostOne ==
    [][ ImportStep =>
          /\ calls' \in {calls, calls + 1}
          /\ Len(shell') <= Len(shell) + 1
          /\ IsPrefix(shell, shell')
          /\ Len(executed_cells') <= Len(executed_cells) + 1
          /\ IsPrefix(executed_cells, executed_cells')
          /\ (Len(shell') = Len(shell) + 1) => ImportMatched
          /\ (~ImportMatched \/ (Available /\ LastOf(invoked').text = NotFoundText))
                => /\ calls' = calls
                   /\ shell' = shell
                   /\ executed_cells' = executed_cells
                   /\ kernelAlive' = kernelAlive
                   /\ kernel_client' = kernel_client
                   /\ kernel_manager' = kernel_manager
                   /\ LastOf(invoked').text = NotFoundText ]_vars

(* After an execute_code call that left one record, import_app was asked for
   a name no class carries: the not-found text came back and the session
   still holds the one request and the one record. *)
C34_Witness ==
    /\ caller = "Executing"
    /\ Len(invoked) = 2
    /\ invoked[1].name = "execute_code" /\ invoked[1].kind = "returned"
    /\ invoked[2].name = "import_app"
    /\ invoked[2].text = NotFoundText
    /\ kernelAlive
    /\ calls = 1
    /\ Len(shell) = 1
    /\ Len(executed_cells) = 1

---------------------------------------------------------------------------
(* The pump ends on a poll that timed out. *)
DeathStep == pc = "pump" /\ pc' = "none" /\ lastPoll' = TimedOut

(* C35: a call of execute_code that ends because the kernel died appends
   one record to the history, after the earlier ones: it holds the submitted
   code and, as outputs, the events gathered before the death followed by
   the synthetic KernelDied error, which is also what the call returns. *)
C35_DeathRecorded ==
    [][ DeathStep =>
          /\ ~kernelAlive
          /\ Len(executed_cells') = Len(executed_cells) + 1
          /\ IsPrefix(executed_cells, executed_cells')
          /\ LastOf(executed_cells').code = code_string
          /\ LastOf(executed_cells').code = LastOf(shell).code
          /\ LastOf(executed_cells').outputs = outputs \o << KernelDiedEvent >>
          /\ ret'.op = "execute_code" /\ ret'.kind = "returned"
          /\ ret'.value = LastOf(executed_cells').outputs ]_vars

(* The second submission printed and then lost its kernel: the history holds
   the record of the first call and, behind it, the record with the stream
   event followed by the KernelDied event. *)
C35_Witness ==
    /\ Returned
    /\ ~kernelAlive
    /\ lastPoll = TimedOut
    /\ Len(executed_cells) = 2
    /\ executed_cells[2].code = shell[2].code
    /\ Len(executed_cells[2].outputs) = 2
    /\ executed_cells[2].outputs[1].type = "stream"
    /\ executed_cells[2].outputs[2] = KernelDiedEvent

---------------------------------------------------------------------------
(* C36 (as stated): whenever _setup_virtual_env has returned without raising
   for the environment path, the packages were installed successfully at
   some earlier point, also in a construction retried after a failed
   installation. *)
C36_Original ==
    (buildPc = "start") => pkgs

(* The construction failed at a step that follows the start of the kernel
   process. *)
FailedAfterStart ==
    /\ buildPc = "failed"
    /\ buildErr \in {"start_channels", "handshake_error", "handshake_timeout"}

(* C37 (as stated): a construction that failed after the kernel process was
   started leaves no kernel running without a registered shutdown. *)
C37_Original ==
    FailedAfterStart => (~kernelAlive \/ atexit)

====
